---- MODULE Spec2Model ----
(***************************************************************************)
(* Dynamic Time Warping of traj_dist/pydist/dtw.py: the Euclidean engine   *)
(* e_dtw (distance, cost matrix, backpointers), the path reconstructor     *)
(* e_extract_dtw_warping_path and the spherical engine s_dtw.              *)
(*                                                                         *)
(* Index conventions.  The padded cost matrix C is a function on           *)
(* (0..n0) \X (0..n1), indexed exactly as in the source.  Python lists     *)
(* (trajectories, W, rows of W, path) are TLA+ sequences: the Python       *)
(* element s[k] is the TLA+ element s[k+1], and PyGet models Python's      *)
(* list indexing, negative indices included.  Index pairs stored in W,     *)
(* idxs and path keep their Python (0-based) values.                       *)
(***************************************************************************)
EXTENDS Integers, Sequences, FiniteSets, TLC

VARIABLES
    t0, t1,      \* the two trajectories handed to e_dtw and s_dtw
    eucl, gc,    \* the two point-distance collaborators, as tables
    pc,          \* position of the caller / of the running function
    outcome,     \* per function: "none", "returned" or "raised"
    dtw, C, W,   \* e_dtw: scalar, padded cost matrix, backpointer matrix
    sdtw, sC,    \* s_dtw: scalar, padded cost matrix
    idxs, path,  \* e_extract_dtw_warping_path: locals
    result       \* e_extract_dtw_warping_path: the returned path

vars == <<t0, t1, eucl, gc, pc, outcome, dtw, C, W, sdtw, sC, idxs, path, result>>

(***************************************************************************)
(* Bounds of the model.                                                    *)
(***************************************************************************)
MaxLen == 3      \* trajectories have 0..MaxLen points
MaxDist == 2     \* the collaborators return 0..MaxDist
MaxWDim == 2     \* hand-made backpointer matrices have 0..MaxWDim rows, columns

\* Cap on the number of loop iterations of the reconstructor that are explored
\* (a walk over a cyclic W never ends).
MaxSteps == 2 * (MaxLen + MaxWDim) + 1

(***************************************************************************)
(* Values.                                                                 *)
(***************************************************************************)
\* float('inf'): larger than every finite cost, absorbing under addition.
Inf == 1000000

\* Python's None.
None == <<>>

\* Sample 2-D points.
Points == {<<0, 0>>, <<3, 4>>}

\* basic_euclidean.eucl_dist(p, q) and
\* basic_spherical.great_circle_distance(p[0], p[1], q[0], q[1]): any table that
\* is total, non-negative and 0 on identical points.
EuclArgs == Points \X Points
GcArgs == {<<p[1], p[2], q[1], q[2]>> : p \in Points, q \in Points}

EuclTables == {d \in [EuclArgs -> 0..MaxDist] : \A p \in Points : d[<<p, p>>] = 0}

GcTables ==
    {d \in [GcArgs -> 0..MaxDist] : \A p \in Points : d[<<p[1], p[2], p[1], p[2]>>] = 0}

eucl_dist(p, q) == eucl[<<p, q>>]

great_circle_distance(a, b, c, d) == gc[<<a, b, c, d>>]

\* The two collaborators return the same value for every pair of points.
Agree(e, g) == \A p \in Points, q \in Points : e[<<p, q>>] = g[<<p[1], p[2], q[1], q[2]>>]

\* The great-circle tables tried next to a planar table e: the one that agrees
\* with e, and the one that puts all distinct points MaxDist apart.
GcTablesFor(e) ==
    {g \in GcTables :
        \/ Agree(e, g)
        \/ \A p \in Points, q \in Points : p # q => g[<<p[1], p[2], q[1], q[2]>>] = MaxDist}

Trajectories == UNION {[1..n -> Points] : n \in 0..MaxLen}

(***************************************************************************)
(* Python and numpy primitives.                                            *)
(***************************************************************************)
\* len(t0), len(t1)
n0 == Len(t0)

n1 == Len(t1)

\* s[k] on a Python list raises IndexError unless -len(s) <= k < len(s).
PyInRange(s, k) == -Len(s) <= k /\ k < Len(s)

PyGet(s, k) == IF k < 0 THEN s[Len(s) + k + 1] ELSE s[k + 1]

\* Faulty variant of Plus: the accumulated cost is dropped.
PlusDistanceOnly(a, b) == a

\* float addition with inf
Plus(a, b) == IF a = Inf \/ b = Inf THEN Inf ELSE a + b

\* Faulty variant of ArgMin: the last occurrence of the minimum.
RECURSIVE ArgMinScanLast(_, _, _)
ArgMinScanLast(s, k, best) ==
    IF k > Len(s) THEN best - 1
    ELSE IF s[k] <= s[best] THEN ArgMinScanLast(s, k + 1, k)
    ELSE ArgMinScanLast(s, k + 1, best)

ArgMinLast(s) == ArgMinScanLast(s, 2, 1)

\* np.argmin(s): the index (0-based) of the first occurrence of the minimum,
\* found by a left-to-right scan.
RECURSIVE ArgMinScan(_, _, _)
ArgMinScan(s, k, best) ==
    IF k > Len(s) THEN best - 1
    ELSE IF s[k] < s[best] THEN ArgMinScan(s, k + 1, k)
    ELSE ArgMinScan(s, k + 1, best)

ArgMin(s) == ArgMinScan(s, 2, 1)

\* Faulty variant of Min3: the third argument is ignored.
Min3OfFirstTwo(a, b, c) == IF a <= b THEN a ELSE b

\* min(a, b, c)
Min3(a, b, c) == IF a <= b /\ a <= c THEN a ELSE IF b <= c THEN b ELSE c

\* Faulty variant of Reverse: the list is left as it is.
NoReverse(s) == s

\* list.reverse()
RECURSIVE Reverse(_)
Reverse(s) == IF s = <<>> THEN <<>> ELSE Append(Reverse(Tail(s)), Head(s))

(***************************************************************************)
(* e_dtw                                                                   *)
(***************************************************************************)
NoMatrix == [c \in {} |-> 0]

\* Faulty variant of NewC: the infinite boundary is not set.
NewCNoBoundary == [c \in (0..n0) \X (0..n1) |-> 0]

\* C = np.zeros((n0 + 1, n1 + 1)); C[1:, 0] = inf; C[0, 1:] = inf
NewC ==
    [c \in (0..n0) \X (0..n1) |->
        IF c[1] >= 1 /\ c[2] = 0 THEN Inf
        ELSE IF c[1] = 0 /\ c[2] >= 1 THEN Inf
        ELSE 0]

\* W = [[None for j in range(n1)] for i in range(n0)]
NewW == [i \in 1..n0 |-> [j \in 1..n1 |-> None]]

\* [C[i, j - 1], C[i - 1, j - 1], C[i - 1, j]]
Costs(Cm, i, j) == <<Cm[<<i, j - 1>>], Cm[<<i - 1, j - 1>>], Cm[<<i - 1, j>>]>>

\* Faulty variant of Cands: diag and up change places.
CandsDiagUpSwapped(i, j) == <<(<<i, j - 1>>), (<<i - 1, j>>), (<<i - 1, j - 1>>)>>

\* [(i,j-1),(i-1,j-1),(i-1,j)]
Cands(i, j) == <<(<<i, j - 1>>), (<<i - 1, j - 1>>), (<<i - 1, j>>)>>

\* Faulty variant of Back: the pair is left in padded coordinates.
BackNoShift(c) == c

\* (min_is_from[0]-1, min_is_from[1]-1)
Back(c) == <<c[1] - 1, c[2] - 1>>

\* One iteration of the inner loop on the pair st = [C, W].
e_dtw_cell(st, i, j) ==
    LET min_is_from_idx == ArgMin(Costs(st.C, i, j))
        min_from_distance == PyGet(Costs(st.C, i, j), min_is_from_idx)
        min_is_from == PyGet(Cands(i, j), min_is_from_idx)
    IN  [C |-> [st.C EXCEPT ![<<i, j>>] =
                    Plus(eucl_dist(PyGet(t0, i - 1), PyGet(t1, j - 1)), min_from_distance)],
         W |-> [st.W EXCEPT ![i][j] =
                    IF i = 1 /\ j = 1 THEN None ELSE Back(min_is_from)]]

\* for i in np.arange(n0) + 1: for j in np.arange(n1) + 1: ...
RECURSIVE e_dtw_loop(_, _, _)
e_dtw_loop(st, i, j) ==
    IF i > n0 THEN st
    ELSE IF j > n1 THEN e_dtw_loop(st, i + 1, 1)
    ELSE e_dtw_loop(e_dtw_cell(st, i, j), i, j + 1)

\* The whole call.  It returns dtw, C[1:,1:] and W: the variable C keeps the
\* padded matrix, whose cells with i, j >= 1 are the returned one.  No
\* statement of the function raises, whatever the lengths.
e_dtw ==
    /\ pc = "e_dtw"
    /\ LET st == e_dtw_loop([C |-> NewC, W |-> NewW], 1, 1)
       IN  /\ C' = st.C
           /\ W' = st.W
           /\ dtw' = st.C[<<n0, n1>>]
    /\ outcome' = [outcome EXCEPT !.e_dtw = "returned"]
    /\ pc' = "s_dtw"
    /\ UNCHANGED <<t0, t1, eucl, gc, sdtw, sC, idxs, path, result>>

(***************************************************************************)
(* s_dtw                                                                   *)
(***************************************************************************)
s_dtw_cell(Cm, i, j) ==
    [Cm EXCEPT ![<<i, j>>] =
        Plus(great_circle_distance(PyGet(PyGet(t0, i - 1), 0), PyGet(PyGet(t0, i - 1), 1),
                                   PyGet(PyGet(t1, j - 1), 0), PyGet(PyGet(t1, j - 1), 1)),
             Min3(Cm[<<i, j - 1>>], Cm[<<i - 1, j - 1>>], Cm[<<i - 1, j>>]))]

RECURSIVE s_dtw_loop(_, _, _)
s_dtw_loop(Cm, i, j) ==
    IF i > n0 THEN Cm
    ELSE IF j > n1 THEN s_dtw_loop(Cm, i + 1, 1)
    ELSE s_dtw_loop(s_dtw_cell(Cm, i, j), i, j + 1)

\* The whole call.  It returns the scalar only; sC is its local matrix.
s_dtw ==
    /\ pc = "s_dtw"
    /\ LET Cm == s_dtw_loop(NewC, 1, 1)
       IN  /\ sC' = Cm
           /\ sdtw' = Cm[<<n0, n1>>]
    /\ outcome' = [outcome EXCEPT !.s_dtw = "returned"]
    /\ pc' = "extract"
    /\ UNCHANGED <<t0, t1, eucl, gc, dtw, C, W, idxs, path, result>>

(***************************************************************************)
(* e_extract_dtw_warping_path(W)                                           *)
(***************************************************************************)
\* path = []; idxs = (len(W)-1, len(W[0])-1).  W[0] raises IndexError on an
\* empty W.
extract_enter ==
    /\ pc = "extract"
    /\ path' = <<>>
    /\ IF PyInRange(W, 0)
       THEN /\ idxs' = <<Len(W) - 1, Len(PyGet(W, 0)) - 1>>
            /\ pc' = "walk"
            /\ UNCHANGED outcome
       ELSE /\ pc' = "done"
            /\ outcome' = [outcome EXCEPT !.extract = "raised"]
            /\ UNCHANGED idxs
    /\ UNCHANGED <<t0, t1, eucl, gc, dtw, C, W, sdtw, sC, result>>

\* One iteration of: while idxs != (0,0): path.append(idxs); idxs = W[idxs[0]][idxs[1]].
\* Subscripting None raises TypeError, an index out of range raises IndexError.
extract_step ==
    /\ pc = "walk"
    /\ idxs # <<0, 0>>
    /\ Len(path) < MaxSteps
    /\ path' = Append(path, idxs)
    /\ IF /\ idxs # None
          /\ PyInRange(W, idxs[1])
          /\ PyInRange(PyGet(W, idxs[1]), idxs[2])
       THEN /\ idxs' = PyGet(PyGet(W, idxs[1]), idxs[2])
            /\ UNCHANGED <<pc, outcome>>
       ELSE /\ pc' = "done"
            /\ outcome' = [outcome EXCEPT !.extract = "raised"]
            /\ UNCHANGED idxs
    /\ UNCHANGED <<t0, t1, eucl, gc, dtw, C, W, sdtw, sC, result>>

\* Loop exit: path.append((0,0)); path.reverse(); return path
extract_return ==
    /\ pc = "walk"
    /\ idxs = <<0, 0>>
    /\ result' = Reverse(Append(path, <<0, 0>>))
    /\ path' = Reverse(Append(path, <<0, 0>>))
    /\ outcome' = [outcome EXCEPT !.extract = "returned"]
    /\ pc' = "done"
    /\ UNCHANGED <<t0, t1, eucl, gc, dtw, C, W, sdtw, sC, idxs>>

(***************************************************************************)
(* Specifications.                                                         *)
(***************************************************************************)
NoOutcome == [e_dtw |-> "none", s_dtw |-> "none", extract |-> "none"]

\* A caller computes both distances of a pair of trajectories, then
\* reconstructs the path from the W that e_dtw returned.
Init ==
    /\ t0 \in Trajectories
    /\ t1 \in Trajectories
    /\ eucl \in EuclTables
    /\ gc \in GcTablesFor(eucl)
    /\ pc = "e_dtw"
    /\ outcome = NoOutcome
    /\ dtw = 0
    /\ C = NoMatrix
    /\ W = <<>>
    /\ sdtw = 0
    /\ sC = NoMatrix
    /\ idxs = None
    /\ path = <<>>
    /\ result = <<>>

Next == e_dtw \/ s_dtw \/ extract_enter \/ extract_step \/ extract_return

Spec == Init /\ [][Next]_vars

\* e_extract_dtw_warping_path is sequential code: once called, it keeps
\* executing its next statement until it returns or raises.
FairSpec ==
    /\ Spec
    /\ WF_vars(extract_enter)
    /\ WF_vars(extract_step)
    /\ WF_vars(extract_return)

\* A caller hands e_extract_dtw_warping_path a backpointer matrix of its own
\* making: any rectangular list of lists whose cells are None or index pairs.
WCells(r, c) == {None} \cup ((-1..r) \X (-1..c))

AnyW == UNION {[1..r -> [1..c -> WCells(r, c)]] : r \in 0..MaxWDim, c \in 0..MaxWDim}

InitExtract ==
    /\ W \in AnyW
    /\ t0 = <<>>
    /\ t1 = <<>>
    /\ eucl = [a \in EuclArgs |-> 0]
    /\ gc = [a \in GcArgs |-> 0]
    /\ pc = "extract"
    /\ outcome = NoOutcome
    /\ dtw = 0
    /\ C = NoMatrix
    /\ sdtw = 0
    /\ sC = NoMatrix
    /\ idxs = None
    /\ path = <<>>
    /\ result = <<>>

NextExtract == extract_enter \/ extract_step \/ extract_return

SpecExtract == InitExtract /\ [][NextExtract]_vars

(***************************************************************************)
(* Vocabulary of the properties.                                           *)
(***************************************************************************)
Cells == (1..n0) \X (1..n1)

NonEmpty == n0 >= 1 /\ n1 >= 1

\* e_dtw has just returned to the caller.
EDone == pc = "s_dtw" /\ outcome.e_dtw = "returned"

\* s_dtw has just returned to the caller, e_dtw before it.
SDone == pc = "extract" /\ outcome.e_dtw = "returned" /\ outcome.s_dtw = "returned"

XReturned == pc = "done" /\ outcome.extract = "returned"

\* Point-distance of the pair (a, b) of 0-based trajectory indices.
PairDist(a, b) == eucl[<<t0[a + 1], t1[b + 1]>>]

\* Every alignment path from (0,0) to (a,b): sequences of 0-based index pairs
\* whose steps are unit right, down or diagonal moves.
RECURSIVE AlignPaths(_, _)
AlignPaths(a, b) ==
    IF a < 0 \/ b < 0 THEN {}
    ELSE IF a = 0 /\ b = 0 THEN {<<(<<0, 0>>)>>}
    ELSE {Append(p, <<a, b>>) :
            p \in AlignPaths(a, b - 1) \cup AlignPaths(a - 1, b - 1) \cup AlignPaths(a - 1, b)}

RECURSIVE PathSum(_)
PathSum(p) ==
    IF p = <<>> THEN 0 ELSE PairDist(Head(p)[1], Head(p)[2]) + PathSum(Tail(p))

Diagonal(n) == [k \in 1..n |-> <<k - 1, k - 1>>]

Metric(e) ==
    /\ \A p \in Points, q \in Points : (e[<<p, q>>] = 0) <=> (p = q)
    /\ \A p \in Points, q \in Points : e[<<p, q>>] = e[<<q, p>>]
    /\ \A p \in Points, q \in Points, r \in Points :
            e[<<p, r>>] <= e[<<p, q>>] + e[<<q, r>>]

\* The three predecessor candidates of padded cell (i,j), in 0-based
\* trajectory-index space, with their costs: left, diag, up.
Left(i, j) == [idx |-> <<i - 1, j - 2>>, cost |-> C[<<i, j - 1>>]]

Diag(i, j) == [idx |-> <<i - 2, j - 2>>, cost |-> C[<<i - 1, j - 1>>]]

Up(i, j) == [idx |-> <<i - 2, j - 1>>, cost |-> C[<<i - 1, j>>]]

LeastCost(i, j) ==
    CHOOSE m \in {Left(i, j).cost, Diag(i, j).cost, Up(i, j).cost} :
        \A x \in {Left(i, j).cost, Diag(i, j).cost, Up(i, j).cost} : m <= x

GreatestOf(Cm, i, j) ==
    CHOOSE m \in {Cm[<<i - 1, j>>], Cm[<<i, j - 1>>], Cm[<<i - 1, j - 1>>]} :
        \A x \in {Cm[<<i - 1, j>>], Cm[<<i, j - 1>>], Cm[<<i - 1, j - 1>>]} : m >= x

LeastOf(Cm, i, j) ==
    CHOOSE m \in {Cm[<<i - 1, j>>], Cm[<<i, j - 1>>], Cm[<<i - 1, j - 1>>]} :
        \A x \in {Cm[<<i - 1, j>>], Cm[<<i, j - 1>>], Cm[<<i - 1, j - 1>>]} : m <= x

(***************************************************************************)
(* C1.  The reconstructed path is optimal: it is an alignment path from    *)
(* (0,0) to (n0-1,n1-1), the point-distances along it sum to the dtw       *)
(* returned by e_dtw, and no alignment path has a smaller sum.             *)
(***************************************************************************)
C1_PathOptimal ==
    (XReturned /\ NonEmpty) =>
        /\ result \in AlignPaths(n0 - 1, n1 - 1)
        /\ PathSum(result) = dtw
        /\ \A p \in AlignPaths(n0 - 1, n1 - 1) : PathSum(p) >= dtw

\* A returned path over 3x3 points that beats some other alignment path.
C1_Witness ==
    /\ XReturned
    /\ n0 = 3
    /\ n1 = 3
    /\ dtw > 0
    /\ \E p \in AlignPaths(n0 - 1, n1 - 1) : PathSum(p) > dtw

(***************************************************************************)
(* C2.  Every backpointer other than W[0][0] is the first of left, diag,   *)
(* up whose cost is the minimum of the three (left wins a tie with diag),  *)
(* and W[0][0] is None.                                                    *)
(***************************************************************************)
C2_FirstMinimum ==
    EDone =>
        \A c \in Cells :
            LET i == c[1]
                j == c[2]
                w == W[i][j]
            IN  IF i = 1 /\ j = 1 THEN w = None
                ELSE \/ /\ w = Left(i, j).idx
                        /\ Left(i, j).cost = LeastCost(i, j)
                     \/ /\ w = Diag(i, j).idx
                        /\ Diag(i, j).cost = LeastCost(i, j)
                        /\ Left(i, j).cost > LeastCost(i, j)
                     \/ /\ w = Up(i, j).idx
                        /\ Up(i, j).cost = LeastCost(i, j)
                        /\ Left(i, j).cost > LeastCost(i, j)
                        /\ Diag(i, j).cost > LeastCost(i, j)

\* Left and diag tie for the minimum at some cell, and left is recorded.
C2_Witness ==
    /\ EDone
    /\ \E c \in Cells :
          /\ c # <<1, 1>>
          /\ Left(c[1], c[2]).cost = Diag(c[1], c[2]).cost
          /\ Left(c[1], c[2]).cost = LeastCost(c[1], c[2])
          /\ W[c[1]][c[2]] = Left(c[1], c[2]).idx

(***************************************************************************)
(* C3 as stated.  For t0 = t1 of length n >= 1 under a metric, repeated    *)
(* points included, the distance is 0 and the path is the pure diagonal.   *)
(***************************************************************************)
C3_IdentityDiagonal ==
    (pc = "done" /\ t0 = t1 /\ n0 >= 1 /\ Metric(eucl)) =>
        /\ outcome.extract = "returned"
        /\ dtw = 0
        /\ result = Diagonal(n0)

\* No two consecutive points of the trajectory are the same point.
NoStutter(t) == \A k \in 1..(Len(t) - 1) : t[k] # t[k + 1]

(***************************************************************************)
(* C3 amended.  For t0 = t1 of length n >= 1 under a metric the distance   *)
(* is 0 and a path is returned; the path is the pure diagonal exactly when *)
(* no two consecutive points of the trajectory are equal.                  *)
(***************************************************************************)
C3_IdentityAmended ==
    (pc = "done" /\ t0 = t1 /\ n0 >= 1 /\ Metric(eucl)) =>
        /\ outcome.extract = "returned"
        /\ dtw = 0
        /\ (result = Diagonal(n0)) <=> NoStutter(t0)

\* A trajectory that revisits a point, without stuttering, aligned with itself.
C3_Witness ==
    /\ XReturned
    /\ t0 = t1
    /\ n0 = 3
    /\ t0[1] = t0[3]
    /\ NoStutter(t0)
    /\ Metric(eucl)
    /\ result = Diagonal(3)

(***************************************************************************)
(* C4 as stated.  The distance is zero if and only if n0 = n1 and every    *)
(* diagonal pair has zero point-distance.                                  *)
(***************************************************************************)
DiagonalZero == n0 = n1 /\ \A k \in 0..(n0 - 1) : PairDist(k, k) = 0

C4_ZeroIffDiagonal == (EDone /\ NonEmpty) => ((dtw = 0) <=> DiagonalZero)

(***************************************************************************)
(* C4 amended.  The distance is zero if and only if some alignment path    *)
(* has zero point-distance at every one of its pairs; zero distance on the *)
(* diagonal of equal-length trajectories is sufficient, not necessary.     *)
(***************************************************************************)
C4_ZeroIffZeroPath ==
    (EDone /\ NonEmpty) =>
        /\ (dtw = 0) <=> (\E p \in AlignPaths(n0 - 1, n1 - 1) : PathSum(p) = 0)
        /\ DiagonalZero => dtw = 0

\* Zero distance between trajectories of different lengths.
C4_Witness == EDone /\ NonEmpty /\ dtw = 0 /\ n0 # n1

(***************************************************************************)
(* C5.  Consecutive pairs of the returned path move by 0 or 1 in each      *)
(* coordinate and never stay in place.                                     *)
(***************************************************************************)
C5_UnitSteps ==
    (XReturned /\ NonEmpty) =>
        \A k \in 1..(Len(result) - 1) :
            /\ result[k + 1][1] \in {result[k][1], result[k][1] + 1}
            /\ result[k + 1][2] \in {result[k][2], result[k][2] + 1}
            /\ result[k + 1] # result[k]

\* A returned path with a diagonal step and a step along one axis.
C5_Witness ==
    /\ XReturned
    /\ NonEmpty
    /\ \E k \in 1..(Len(result) - 1) :
          result[k + 1] = <<result[k][1] + 1, result[k][2] + 1>>
    /\ \E k \in 1..(Len(result) - 1) : result[k + 1][1] = result[k][1]
    /\ \E k \in 1..(Len(result) - 1) : result[k + 1][2] = result[k][2]

\* On non-empty trajectories the walk never raises, appends at most n0+n1-2
\* pairs before it reaches (0,0), and what it returns runs from (0,0) to
\* (n0-1,n1-1).
WalkSafe ==
    NonEmpty =>
        /\ outcome.extract # "raised"
        /\ pc = "walk" => Len(path) <= n0 + n1 - 2
        /\ XReturned =>
              /\ result[1] = <<0, 0>>
              /\ result[Len(result)] = <<n0 - 1, n1 - 1>>
              /\ (n0 = 1 /\ n1 = 1) => result = <<(<<0, 0>>)>>

(***************************************************************************)
(* C6.  On the W of e_dtw for non-empty trajectories the walk terminates:  *)
(* it never raises, stays within n0+n1-2 iterations, and eventually        *)
(* returns a path whose first pair is (0,0) and whose last pair is         *)
(* (n0-1,n1-1); for n0 = n1 = 1 the path is [(0,0)].                       *)
(***************************************************************************)
C6_Terminates ==
    /\ []WalkSafe
    /\ (pc = "extract" /\ NonEmpty) ~> XReturned

\* The longest walk over 3x3 points has returned.
C6_Witness == XReturned /\ n0 = 3 /\ n1 = 3 /\ Len(result) = 5

(***************************************************************************)
(* C7.  On a malformed W the reconstructor raises instead of looping or    *)
(* returning a path.  Malformed: W is empty, or the chain of backpointers  *)
(* from (n0-1,n1-1) leaves 0..n0-1 x 0..n1-1 or does not reach (0,0)       *)
(* within n0+n1 steps.                                                     *)
(***************************************************************************)
Rows == Len(W)

Cols == IF Len(W) = 0 THEN 0 ELSE Len(W[1])

RECURSIVE ChainReachesOrigin(_, _)
ChainReachesOrigin(cell, fuel) ==
    IF cell = <<0, 0>> THEN TRUE
    ELSE IF fuel = 0 THEN FALSE
    ELSE LET nx == W[cell[1] + 1][cell[2] + 1]
         IN  /\ nx # None
             /\ nx[1] \in 0..(Rows - 1)
             /\ nx[2] \in 0..(Cols - 1)
             /\ ChainReachesOrigin(nx, fuel - 1)

Malformed ==
    \/ Rows = 0
    \/ Cols = 0
    \/ ~ChainReachesOrigin(<<Rows - 1, Cols - 1>>, Rows + Cols)

C7_MalformedRaises ==
    Malformed =>
        /\ outcome.extract # "returned"
        /\ Len(path) <= Rows + Cols

(***************************************************************************)
(* C8.  With an empty trajectory neither e_dtw nor s_dtw returns a result: *)
(* each raises an empty-trajectory error.                                  *)
(***************************************************************************)
C8_EmptyRaises ==
    (n0 = 0 \/ n1 = 0) =>
        /\ outcome.e_dtw # "returned"
        /\ outcome.s_dtw # "returned"

(***************************************************************************)
(* C9 as stated.  In both padded cost matrices every computed cell is at   *)
(* least the maximum of its three predecessors.                            *)
(***************************************************************************)
C9_AtLeastMax ==
    SDone =>
        \A c \in Cells :
            /\ C[c] >= GreatestOf(C, c[1], c[2])
            /\ sC[c] >= GreatestOf(sC, c[1], c[2])

(***************************************************************************)
(* C9 amended.  In both padded cost matrices every computed cell is at     *)
(* least the minimum of its three predecessors.                            *)
(***************************************************************************)
C9_AtLeastMin ==
    SDone =>
        \A c \in Cells :
            /\ C[c] >= LeastOf(C, c[1], c[2])
            /\ sC[c] >= LeastOf(sC, c[1], c[2])

\* An interior cell, all predecessors finite, that is below their maximum.
C9_Witness ==
    /\ SDone
    /\ \E c \in Cells :
          /\ c[1] >= 2
          /\ c[2] >= 2
          /\ C[c] < GreatestOf(C, c[1], c[2])
          /\ sC[c] < GreatestOf(sC, c[1], c[2])

(***************************************************************************)
(* C10.  When the two collaborators agree on every pair of points, s_dtw   *)
(* returns the scalar e_dtw returns, from the same cost matrix.            *)
(***************************************************************************)
C10_ScalarAgreement ==
    (SDone /\ NonEmpty /\ Agree(eucl, gc)) =>
        /\ sdtw = dtw
        /\ sC = C

\* Agreement on a non-zero distance where e_dtw broke a tie.
C10_Witness ==
    /\ SDone
    /\ Agree(eucl, gc)
    /\ n0 >= 2
    /\ n1 >= 2
    /\ sdtw = dtw
    /\ dtw > 0
    /\ \E c \in Cells : c # <<1, 1>> /\ Left(c[1], c[2]).cost = Diag(c[1], c[2]).cost

====
